---- MODULE Spec2Model ----
(***************************************************************************)
(* git-bb-ado: the command line tool of src/index.js, and its older        *)
(* variant src/unnamed/part_001 (commands migrate and validate only, a     *)
(* fetcher of one request that returns slugs).  One run of the             *)
(* process: main() checks the command, getUserInputs() prompts for the     *)
(* credentials, the listing is fetched page by page, and the selected      *)
(* workflow (migrate, validate, analyze:repo, analyze:project) processes   *)
(* the fetched items one at a time and writes its report workbook.         *)
(*                                                                         *)
(* Everything outside the process is the environment: the Bitbucket and    *)
(* Azure DevOps servers (axios), git (simple-git), the shell (execSync),   *)
(* the clock and the user at the prompts.  Each call to it either throws   *)
(* or returns, as the environment chooses.                                 *)
(***************************************************************************)
EXTENDS Integers, Sequences, FiniteSets, TLC

(* ---------------------------- bounds ---------------------------------- *)
\* number of distinct repositories (or projects) the workspace can hold
MaxRepos == 2
\* number of pages the listing endpoint can serve
MaxPages == 2

SlugPool == <<"alpha", "beta", "gamma", "delta">>
Slugs == {SlugPool[k] : k \in 1..(IF MaxRepos < 4 THEN MaxRepos ELSE 4)}

(* ------------------------- JavaScript values --------------------------- *)
\* A report cell is a JavaScript value: a string, a number or an object.
JsString(s) == [t |-> "string", v |-> s]
JsNumber(n) == [t |-> "number", v |-> n]
\* a repository object of the listing, kept as a cell (Repository: repo)
JsObject(repo) == [t |-> "object", v |-> repo.slug]

\* An item of the fetched list is a repository object (index.js:67, :89)
\* or, in part_001, the slug string (part_001:45).
IsObject(repo) == "slug" \in DOMAIN repo

\* Template-literal conversion `${repo}`: String(object) is
\* "[object Object]", and a string is itself.
ToStr(repo) == IF IsObject(repo) THEN "[object Object]" ELSE repo.v

\* the value stored by `Repository: repo`
RepoCell(repo) == IF IsObject(repo) THEN JsObject(repo) ELSE repo

\* The words the shell makes of `prefix${repo}suffix` in a command line of
\* execSync: the text is split at the space of "[object Object]".
ShellWords(prefix, repo, suffix) ==
    IF IsObject(repo) THEN {prefix \o "[object", "Object]" \o suffix}
    ELSE {prefix \o repo.v \o suffix}

\* `x || null` (index.js:91, :305, :333): absent and null both give null.
OrNull(next) == IF next = "url" THEN "url" ELSE "null"

(* ------------------------------ listing -------------------------------- *)
\* An item of the repository listing and of the project listing.
RepoObject(s) == [slug |-> s]
ProjectObject(s) == [key |-> s, name |-> "Project " \o s]

RECURSIVE SeqRange(_)
SeqRange(s) == IF s = <<>> THEN {} ELSE {Head(s)} \cup SeqRange(Tail(s))

\* sequences without repetition over a set, of every length
RECURSIVE DistinctSeqs(_)
DistinctSeqs(S) ==
    {<<>>} \cup UNION {{<<x>> \o r : r \in DistinctSeqs(S \ {x})} : x \in S}

NextKinds == {"url", "null", "absent"}

\* The pages the server holds: page k+1 is what page k's `next` points to.
\* No repository is listed twice, and the last page has no `next`.
RECURSIVE Listings(_, _)
Listings(S, n) ==
    IF n = 0 THEN {<<>>}
    ELSE {<<>>} \cup
         UNION {{<<[values |-> vs, next |-> nx]>> \o rest :
                    nx \in NextKinds,
                    rest \in Listings(S \ SeqRange(vs), n - 1)} :
                vs \in DistinctSeqs(S)}

WellFormed(ps) ==
    /\ Len(ps) >= 1
    /\ ps[Len(ps)].next # "url"

ServerListings == {ps \in Listings(Slugs, MaxPages) : WellFormed(ps)}

(* ------------------------------ commands ------------------------------- *)
\* config/commands.js
commands == {"migrate", "validate", "analyze:repo", "analyze:project"}
\* the two programs of the repository
Programs == {"index.js", "part_001"}
\* the commands main() accepts: index.js:383, part_001:177
Recognized(p) == IF p = "index.js" THEN commands ELSE {"migrate", "validate"}
\* process.argv[2]: a recognized command, another word, or nothing
NoCommand == "<undefined>"
Argv2 == commands \cup {"deploy", NoCommand}

\* exit status of a Node process that dies of an unhandled promise rejection
UnhandledRejectionExit == 1

VARIABLES
    program,        \* which of the two programs runs
    command,        \* process.argv[2]
    inquirerDefined,\* whether the identifier `inquirer` resolves (index.js:112)
    userProceeds,   \* what the user answers to a yes/no confirmation
    pages,          \* the listing the server holds
    pc,             \* where the run is
    exitCode,       \* -1 while running, then the process's exit status
    asked,          \* the credentials getUserInputs prompted for
    url,            \* fetch loop: page to request next, 0 for null
    allRepos,       \* fetch loop: items accumulated so far
    requests,       \* number of listing page requests issued
    repos,          \* the list the workflow iterates over
    idx,            \* loop: index of the next item to process
    report,         \* rows pushed so far
    passed, failed, \* migrate counters
    cwd,            \* process working directory, relative to the start
    fs,             \* scratch directories on disk (paths)
    effects,        \* mutating external calls made so far
    files,          \* report workbooks written: name -> [dir, rows]
    log,            \* environment outcome met by each processed item
    answers,        \* validate: how the servers and git would answer, per item
    run,            \* 1 for the first run, 2 for the re-run of validate
    prevReport,     \* rows of the first run, kept for the re-run
    fetched         \* "pending", then "ok" or "failed": how the listing fetch ended

vars == <<answers, program, command, inquirerDefined, userProceeds, pages, pc, exitCode, asked,
          url, allRepos, requests, repos, idx, report, passed, failed, cwd,
          fs, effects, files, log, run, prevReport, fetched>>

Init ==
    /\ program \in Programs
    /\ command \in Argv2
    /\ inquirerDefined \in BOOLEAN
    /\ userProceeds \in BOOLEAN
    /\ pages \in ServerListings
    /\ pc = "main"
    /\ exitCode = -1
    /\ asked = {}
    /\ url = 1
    /\ allRepos = <<>>
    /\ requests = 0
    /\ repos = <<>>
    /\ idx = 1
    /\ report = <<>>
    /\ passed = 0
    /\ failed = 0
    /\ cwd = <<>>
    /\ fs = {}
    /\ effects = {}
    /\ files = {}
    /\ log = <<>>
    /\ answers = <<>>
    /\ run = 1
    /\ prevReport = <<>>
    /\ fetched = "pending"

\* process.exit(code), or the event loop draining after main() returns
Exit(code) ==
    /\ pc' = "exited"
    /\ exitCode' = code

(* -------------------------------- main --------------------------------- *)
\* main(), index.js:381-391 and part_001:175-180: the command check
Main ==
    /\ pc = "main"
    /\ IF command = NoCommand \/ command \notin Recognized(program)
       THEN Exit(1)
       ELSE pc' = "inputs" /\ UNCHANGED exitCode
    /\ UNCHANGED <<answers, program, command, inquirerDefined, userProceeds, pages, asked, url,
                   allRepos, requests, repos, idx, report, passed, failed,
                   cwd, fs, effects, files, log, run, prevReport, fetched>>

BitbucketPrompts == {"workspace", "username", "appPassword"}
AzurePrompts == {"azureOrg", "azureProject", "azurePat"}

\* the argument main() passes to getUserInputs
OnlyBitbucket(c) == c \in {"analyze:repo", "analyze:project"}

\* getUserInputs(onlybitbucket), index.js:13-43; part_001:12-33 asks for
\* all six
GetUserInputs ==
    /\ pc = "inputs"
    /\ asked' = IF program = "index.js" /\ OnlyBitbucket(command)
                THEN BitbucketPrompts
                ELSE BitbucketPrompts \cup AzurePrompts
    /\ pc' = "fetch"
    /\ UNCHANGED <<answers, program, command, inquirerDefined, userProceeds, pages, exitCode,
                   url, allRepos, requests, repos, idx, report, passed,
                   failed, cwd, fs, effects, files, log, run, prevReport,
                   fetched>>

(* ------------------------------- fetching ------------------------------ *)
\* response.data.values of page k, as repository or project objects
RepoValues(k) == [j \in 1..Len(pages[k].values) |-> RepoObject(pages[k].values[j])]
ProjectValues(k) == [j \in 1..Len(pages[k].values) |-> ProjectObject(pages[k].values[j])]
\* response.data.values.map((repo) => repo.slug), part_001:45
SlugValues(k) == [j \in 1..Len(pages[k].values) |-> JsString(RepoObject(pages[k].values[j]).slug)]

\* the url variable after a response: the next page, or 0 for null
FollowNext(k) == IF OrNull(pages[k].next) = "url" THEN k + 1 ELSE 0

\* allRepos.push(...values), index.js:89; allProjects.concat(values), :304
Accumulate(acc, values) == acc \o values

\* where a repository workflow goes once the list is fetched
AfterRepoFetch(c) == IF c = "migrate" THEN "confirm" ELSE "loop"

\* fetchBitbucketRepos, index.js:78-107: one pass of the do-while loop.
\* A failed request ends the process (process.exit(1) in the catch).
FetchBitbucketRepos ==
    /\ pc = "fetch"
    /\ program = "index.js"
    /\ command \in {"migrate", "validate", "analyze:repo"}
    /\ requests' = requests + 1
    /\ \E ok \in BOOLEAN :
         IF ok
         THEN /\ allRepos' = Accumulate(allRepos, RepoValues(url))
              /\ url' = FollowNext(url)
              /\ IF url' = 0
                 THEN /\ repos' = allRepos'
                      /\ fetched' = "ok"
                      /\ pc' = AfterRepoFetch(command)
                 ELSE UNCHANGED <<repos, fetched, pc>>
              /\ UNCHANGED exitCode
         ELSE /\ fetched' = "failed"
              /\ Exit(1)
              /\ UNCHANGED <<allRepos, url, repos>>
    /\ UNCHANGED <<answers, program, command, inquirerDefined, userProceeds, pages, asked, idx,
                   report, passed, failed, cwd, fs, effects, files, log, run,
                   prevReport>>

\* fetchBitbucketRepos of part_001:35-50: one request (?pagelen=100), the
\* slugs of its values returned and `next` never read.  A failed request
\* ends the process (process.exit(1) in the catch).
FetchBitbucketReposOnce ==
    /\ pc = "fetch"
    /\ program = "part_001"
    /\ requests' = requests + 1
    /\ \E ok \in BOOLEAN :
         IF ok
         THEN /\ allRepos' = SlugValues(url)
              /\ repos' = allRepos'
              /\ url' = 0
              /\ fetched' = "ok"
              /\ pc' = AfterRepoFetch(command)
              /\ UNCHANGED exitCode
         ELSE /\ fetched' = "failed"
              /\ Exit(1)
              /\ UNCHANGED <<allRepos, url, repos>>
    /\ UNCHANGED <<answers, program, command, inquirerDefined, userProceeds, pages,
                   asked, idx, report, passed, failed, cwd, fs, effects,
                   files, log, run, prevReport>>

\* fetchBitbucketProjects, index.js:294-313, with the emptiness check of
\* analyzeBitbucketProject, :350-354: one pass of the while loop.  A failed
\* request makes the fetcher return [], and an empty list makes the
\* workflow return, so the process ends normally.
FetchBitbucketProjects ==
    /\ pc = "fetch"
    /\ command = "analyze:project"
    /\ requests' = requests + 1
    /\ \E ok \in BOOLEAN :
         IF ok
         THEN /\ allRepos' = Accumulate(allRepos, ProjectValues(url))
              /\ url' = FollowNext(url)
              /\ IF url' = 0
                 THEN /\ repos' = allRepos'
                      /\ fetched' = "ok"
                      /\ IF Len(allRepos') = 0
                         THEN Exit(0)
                         ELSE pc' = "loop" /\ UNCHANGED exitCode
                 ELSE UNCHANGED <<repos, fetched, pc, exitCode>>
         ELSE /\ fetched' = "failed"
              /\ repos' = <<>>
              /\ Exit(0)
              /\ UNCHANGED <<allRepos, url>>
    /\ UNCHANGED <<answers, program, command, inquirerDefined, userProceeds, pages, asked, idx,
                   report, passed, failed, cwd, fs, effects, files, log, run,
                   prevReport>>

(* ------------------------------- migrate ------------------------------- *)
\* migrateRepositories, index.js:111-118: the confirmation.  `inquirer` is
\* bound by no import (index.js:3-11), so evaluating inquirer.confirm throws
\* a ReferenceError unless the host defines a global of that name; the
\* rejection reaches main()'s promise, which nothing handles.
Confirm ==
    /\ pc = "confirm"
    /\ IF ~inquirerDefined
       THEN Exit(UnhandledRejectionExit)
       ELSE IF ~userProceeds
            THEN Exit(0)
            ELSE pc' = "loop" /\ UNCHANGED exitCode
    /\ UNCHANGED <<answers, program, command, inquirerDefined, userProceeds, pages, asked, url,
                   allRepos, requests, repos, idx, report, passed, failed,
                   cwd, fs, effects, files, log, run, prevReport, fetched>>

\* How one iteration of the migrate loop ends: the first call that throws,
\* or "ok" when none does.
MigrateOutcomes ==
    {"cloneFail", "createFail", "addRemoteFail", "pushFail", "rmFail", "ok"}

\* Date.now() - startTime, in milliseconds
ElapsedMs == {0, 1500}

\* the three decimals of a number of milliseconds, trailing zeros dropped
Fraction(ms) ==
    LET f == ms % 1000
    IN  IF f % 100 = 0 THEN ToString(f \div 100)
        ELSE IF f % 10 = 0
             THEN ToString(f \div 100) \o ToString((f % 100) \div 10)
             ELSE ToString(f \div 100) \o ToString((f % 100) \div 10)
                  \o ToString(f % 10)

\* `${(Date.now() - startTime) / 1000}s`, index.js:163
TimeTaken(ms) ==
    IF ms % 1000 = 0 THEN ToString(ms \div 1000) \o "s"
    ELSE ToString(ms \div 1000) \o "." \o Fraction(ms) \o "s"

\* the row pushed for one repository, index.js:160-164 and :168
MigrateRow(repo, o, ms) ==
    IF o = "ok"
    THEN [Repository |-> RepoCell(repo), Status |-> JsString("Success"),
          TimeTaken |-> JsString(TimeTaken(ms))]
    ELSE [Repository |-> RepoCell(repo), Status |-> JsString("Failed"),
          TimeTaken |-> JsString("N/A")]

\* `${repo}.git`, the scratch clone of migrate, index.js:131
MirrorDir(repo) == ToStr(repo) \o ".git"

\* process.chdir(`${repo}.git`) at index.js:149 is undone by
\* process.chdir('..') at :155, which runs only if addRemote and push return.
CwdAfterMigrate(dir, repo, o) ==
    IF o \in {"addRemoteFail", "pushFail"} THEN Append(dir, MirrorDir(repo))
    ELSE dir

\* git clone refuses a destination that exists and is not empty
CloneRefused(disk, path) == path \in disk

\* what `rm -rf prefix${repo}suffix`, run by the shell in dir, leaves of disk
RmRf(disk, dir, prefix, repo, suffix) ==
    disk \ {Append(dir, w) : w \in ShellWords(prefix, repo, suffix)}

\* the scratch clone is created by the clone; rm -rf at index.js:156 removes
\* what the shell names
FsAfterMigrate(disk, dir, repo, o) ==
    IF o = "cloneFail" THEN disk
    ELSE IF o = "ok"
         THEN RmRf(disk \cup {Append(dir, MirrorDir(repo))}, dir, "", repo, ".git")
         ELSE disk \cup {Append(dir, MirrorDir(repo))}

\* the mutating calls an iteration has made when it ends; the repository
\* creation is posted { name: repo } (index.js:138)
MigrateEffects(repo, o) ==
    LET clone == [op |-> "clone", arg |-> JsString(MirrorDir(repo))]
        create == [op |-> "createRepo", arg |-> RepoCell(repo)]
        push == [op |-> "push", arg |-> JsString(ToStr(repo))]
    IN  CASE o = "cloneFail" -> {}
          [] o = "createFail" -> {clone}
          [] o \in {"addRemoteFail", "pushFail"} -> {clone, create}
          [] OTHER -> {clone, create, push}

\* migrateRepositories, index.js:124-170: one iteration of the loop
MigrateRepo ==
    /\ pc = "loop"
    /\ command = "migrate"
    /\ idx <= Len(repos)
    /\ \E o \in MigrateOutcomes, ms \in ElapsedMs :
         /\ o # "ok" => ms = 0
         /\ CloneRefused(fs, Append(cwd, MirrorDir(repos[idx]))) => o = "cloneFail"
         /\ report' = Append(report, MigrateRow(repos[idx], o, ms))
         /\ passed' = IF o = "ok" THEN passed + 1 ELSE passed
         /\ failed' = IF o = "ok" THEN failed ELSE failed + 1
         /\ cwd' = CwdAfterMigrate(cwd, repos[idx], o)
         /\ fs' = FsAfterMigrate(fs, cwd, repos[idx], o)
         /\ effects' = effects \cup MigrateEffects(repos[idx], o)
         /\ log' = Append(log, o)
    /\ idx' = idx + 1
    /\ UNCHANGED <<answers, program, command, inquirerDefined, userProceeds, pages, pc,
                   exitCode, asked, url, allRepos, requests, repos, files,
                   run, prevReport, fetched>>

(* ------------------------------- validate ------------------------------ *)
\* What execSync returns for `git rev-list --all --count`: the count in
\* decimal, followed by whatever whitespace the command printed.
CommitCounts == {7, 12}
RawCounts == {[count |-> n, ws |-> w] : n \in CommitCounts, w \in {"", "\n"}}
NoOutput == [count |-> 0, ws |-> ""]

\* the text of an output: Buffer.toString(), index.js:197 and :209
Text(out) == ToString(out.count) \o out.ws

\* String.trim(), index.js:198 and :210: the text without the whitespace
\* around it
Trim(out) == ToString(out.count)

\* How one iteration of the validate loop ends: the first call that throws
\* (clone, count or rm -rf, on the Bitbucket or on the Azure side), or
\* "counted" with the two outputs when none does.
ValidateFailures ==
    {"bbCloneFail", "bbCountFail", "bbRmFail",
     "azCloneFail", "azCountFail", "azRmFail"}
ValidateOutcomes ==
    {[kind |-> k, bb |-> NoOutput, az |-> NoOutput] : k \in ValidateFailures}
        \cup {[kind |-> "counted", bb |-> b, az |-> a] :
                  b \in RawCounts, a \in RawCounts}

\* bitbucketCommits === azureCommits, index.js:213
SameCommits(o) == Trim(o.bb) = Trim(o.az)

\* the row pushed for one repository, index.js:213-223
ValidateRow(repo, o) ==
    IF o.kind = "counted" /\ SameCommits(o)
    THEN [Repository |-> RepoCell(repo), Status |-> JsString("Success")]
    ELSE [Repository |-> RepoCell(repo), Status |-> JsString("Failed")]

\* `bitbucket_${repo}.git` and `azure_${repo}.git`, index.js:191, :203
BitbucketDir(repo) == "bitbucket_" \o ToStr(repo) \o ".git"
AzureDir(repo) == "azure_" \o ToStr(repo) \o ".git"

\* Each clone creates its directory; each rm -rf (index.js:199, :211) runs
\* only when the clone and the count before it returned, and removes what
\* the shell names.
FsAfterValidate(disk, dir, repo, o) ==
    LET bb == Append(dir, BitbucketDir(repo))
        az == Append(dir, AzureDir(repo))
        bbGone == RmRf(disk \cup {bb}, dir, "bitbucket_", repo, ".git")
    IN  CASE o.kind = "bbCloneFail" -> disk
          [] o.kind \in {"bbCountFail", "bbRmFail"} -> disk \cup {bb}
          [] o.kind = "azCloneFail" -> bbGone
          [] o.kind \in {"azCountFail", "azRmFail"} -> bbGone \cup {az}
          [] OTHER -> RmRf(bbGone \cup {az}, dir, "azure_", repo, ".git")

\* `cd prefix${repo}suffix && git rev-list --all --count` (index.js:194-196,
\* :206-208): the shell's cd fails when the name has been split into words
CdRefused(prefix, repo, suffix) == Cardinality(ShellWords(prefix, repo, suffix)) > 1

\* What an iteration meets when the servers and git would answer as in o,
\* call after call: a clone whose destination is still on disk is refused,
\* and a count whose cd fails throws.
ValidateMeets(disk, dir, repo, o) ==
    LET thrown(k) == [kind |-> k, bb |-> NoOutput, az |-> NoOutput]
    IN  CASE CloneRefused(disk, Append(dir, BitbucketDir(repo))) -> thrown("bbCloneFail")
          [] o.kind = "bbCloneFail" -> o
          [] CdRefused("bitbucket_", repo, ".git") -> thrown("bbCountFail")
          [] o.kind \in {"bbCountFail", "bbRmFail"} -> o
          [] CloneRefused(disk, Append(dir, AzureDir(repo))) -> thrown("azCloneFail")
          [] o.kind = "azCloneFail" -> o
          [] CdRefused("azure_", repo, ".git") -> thrown("azCountFail")
          [] OTHER -> o

\* the clones an iteration has made when it ends
ValidateEffects(repo, o) ==
    LET bb == [op |-> "clone", arg |-> JsString(BitbucketDir(repo))]
        az == [op |-> "clone", arg |-> JsString(AzureDir(repo))]
    IN  CASE o.kind = "bbCloneFail" -> {}
          [] o.kind \in {"bbCountFail", "bbRmFail", "azCloneFail"} -> {bb}
          [] OTHER -> {bb, az}

\* validateRepositories, index.js:185-224: one iteration of the loop.  In
\* the re-run the repositories are unchanged: the servers and git would
\* answer as they did, and the disk is as the first run left it.
ValidateRepo ==
    /\ pc = "loop"
    /\ command = "validate"
    /\ idx <= Len(repos)
    /\ \E a \in ValidateOutcomes :
         LET o == ValidateMeets(fs, cwd, repos[idx], a)
         IN  /\ run = 2 => a = answers[idx]
             /\ report' = Append(report, ValidateRow(repos[idx], o))
             /\ fs' = FsAfterValidate(fs, cwd, repos[idx], o)
             /\ effects' = effects \cup ValidateEffects(repos[idx], o)
             /\ log' = IF run = 1 THEN Append(log, o) ELSE [log EXCEPT ![idx] = o]
             /\ answers' = IF run = 1 THEN Append(answers, a) ELSE answers
    /\ idx' = idx + 1
    /\ UNCHANGED <<program, command, inquirerDefined, userProceeds, pages, pc,
                   exitCode, asked, url, allRepos, requests, repos, passed,
                   failed, cwd, files, run, prevReport, fetched>>

\* The user runs `validate` a second time in the same directory, against
\* the same servers: a new process, the disk as the first run left it.
Rerun ==
    /\ pc = "exited"
    /\ command = "validate"
    /\ exitCode = 0
    /\ run = 1
    /\ run' = 2
    /\ prevReport' = report
    /\ pc' = "main"
    /\ exitCode' = -1
    /\ asked' = {}
    /\ url' = 1
    /\ allRepos' = <<>>
    /\ requests' = 0
    /\ repos' = <<>>
    /\ idx' = 1
    /\ report' = <<>>
    /\ fetched' = "pending"
    /\ effects' = {}
    /\ UNCHANGED <<answers, program, command, inquirerDefined, userProceeds, pages, passed,
                   failed, cwd, fs, files, log>>

(* ------------------------------- analyze ------------------------------- *)
\* the collaborators the permissions endpoint can return for a repository
Members ==
    {<<>>,
     <<[display_name |-> "Ann", permission |-> "admin"]>>,
     <<[display_name |-> "Ann", permission |-> "admin"],
       [display_name |-> "Bob", permission |-> "read"]>>}

\* `${member.user.display_name} (${member.permission})`, index.js:239
RenderMember(m) == m.display_name \o " (" \o m.permission \o ")"

\* members.join(', '), index.js:258
RECURSIVE Join(_)
Join(ms) ==
    IF ms = <<>> THEN ""
    ELSE IF Len(ms) = 1 THEN RenderMember(ms[1])
    ELSE RenderMember(ms[1]) \o ", " \o Join(Tail(ms))

\* What the two requests of fetchRepoDetails meet: the permissions request
\* throws or returns members; the pipelines request throws or returns a
\* number of items.
RepoDetailOutcomes ==
    {[membersOk |-> FALSE, members |-> <<>>, pipelineOk |-> FALSE, pipelines |-> 0]}
        \cup {[membersOk |-> TRUE, members |-> m, pipelineOk |-> FALSE, pipelines |-> 0] :
                  m \in Members}
        \cup {[membersOk |-> TRUE, members |-> m, pipelineOk |-> TRUE, pipelines |-> n] :
                  m \in Members, n \in 0..1}

\* a pipelines request whose error is reported in the row
HasPipelineOrError(o) ==
    IF ~o.pipelineOk THEN "Error" ELSE IF o.pipelines # 0 THEN "Yes" ELSE "No"

\* hasPipeline, index.js:242-254
HasPipeline(o) == IF o.pipelineOk /\ o.pipelines # 0 THEN "Yes" ELSE "No"

\* fetchRepoDetails, index.js:232-271: the row of one repository
FetchRepoDetails(repo, o) ==
    IF o.membersOk
    THEN [Repository |-> JsString(repo.slug),
          Members |-> JsString(Join(o.members)),
          Pipeline |-> JsString(HasPipeline(o))]
    ELSE [Repository |-> JsString(repo.slug),
          Members |-> JsString("Error fetching members"),
          Pipeline |-> JsString("Error")]

\* analyzeBitbucketRepo, index.js:278-281: one iteration of the loop
AnalyzeRepo ==
    /\ pc = "loop"
    /\ command = "analyze:repo"
    /\ idx <= Len(repos)
    /\ \E o \in RepoDetailOutcomes :
         /\ report' = Append(report, FetchRepoDetails(repos[idx], o))
         /\ log' = Append(log, o)
    /\ idx' = idx + 1
    /\ UNCHANGED <<answers, program, command, inquirerDefined, userProceeds, pages, pc,
                   exitCode, asked, url, allRepos, requests, repos, passed,
                   failed, cwd, fs, effects, files, run, prevReport, fetched>>

\* What the paginated repository listing of one project meets: the number
\* of repositories on each page, and the request that throws (0 for none).
PageLengths == {<<0>>, <<2>>, <<2, 1>>}
RepoCountOutcomes ==
    UNION {{[lens |-> l, failAt |-> f] : f \in 0..Len(l)} : l \in PageLengths}

RECURSIVE Sum(_)
Sum(l) == IF l = <<>> THEN 0 ELSE Head(l) + Sum(Tail(l))

\* fetchRepoCountForProject, index.js:315-345: the pages are added up, and
\* a request that throws makes the function return 0
FetchRepoCountForProject(o) ==
    IF o.failAt # 0 THEN 0 ELSE Sum(o.lens)

\* the row pushed for one project, index.js:362-366
ProjectRow(project, o) ==
    [ProjectName |-> JsString(project.name),
     ProjectCode |-> JsString(project.key),
     RepoCount |-> JsNumber(FetchRepoCountForProject(o))]

\* analyzeBitbucketProject, index.js:359-367: one iteration of the loop
AnalyzeProject ==
    /\ pc = "loop"
    /\ command = "analyze:project"
    /\ idx <= Len(repos)
    /\ \E o \in RepoCountOutcomes :
         /\ report' = Append(report, ProjectRow(repos[idx], o))
         /\ log' = Append(log, o)
    /\ idx' = idx + 1
    /\ UNCHANGED <<answers, program, command, inquirerDefined, userProceeds, pages, pc,
                   exitCode, asked, url, allRepos, requests, repos, passed,
                   failed, cwd, fs, effects, files, run, prevReport, fetched>>

(* ---------------------------- report writer ---------------------------- *)
\* the fixed file name of each workflow, index.js:178, :229, :287, :374
ReportFile(c) ==
    CASE c = "migrate" -> "migration_report.xlsx"
      [] c = "validate" -> "validation_report.xlsx"
      [] c = "analyze:repo" -> "bitbucket_analysis.xlsx"
      [] OTHER -> "bitbucket_projects_analysis.xlsx"

\* XLSX.writeFile(wb, name): the file lands in the working directory and
\* replaces a file of that name
WriteFile(disk, dir, name, rows) ==
    {f \in disk : ~(f.dir = dir /\ f.name = name)}
        \cup {[dir |-> dir, name |-> name, rows |-> rows]}

\* the code after each workflow's loop: the workbook is written and the
\* workflow returns to main(), which returns
WriteReport ==
    /\ pc = "loop"
    /\ idx > Len(repos)
    /\ files' = WriteFile(files, cwd, ReportFile(command), report)
    /\ effects' = effects \cup {[op |-> "writeFile", arg |-> JsString(ReportFile(command))]}
    /\ Exit(0)
    /\ UNCHANGED <<answers, program, command, inquirerDefined, userProceeds, pages, asked, url,
                   allRepos, requests, repos, idx, report, passed, failed,
                   cwd, fs, log, run, prevReport, fetched>>

(* ---------------------------- specification ---------------------------- *)
Next ==
    \/ Main
    \/ GetUserInputs
    \/ FetchBitbucketRepos
    \/ FetchBitbucketReposOnce
    \/ FetchBitbucketProjects
    \/ Confirm
    \/ MigrateRepo
    \/ ValidateRepo
    \/ AnalyzeRepo
    \/ AnalyzeProject
    \/ WriteReport
    \/ Rerun

Spec == Init /\ [][Next]_vars

\* The repository fetcher alone: the runs of the three repository commands
\* up to the end of fetchBitbucketRepos.
RepoCommands == {"migrate", "validate", "analyze:repo"}
InitFetch == Init /\ command \in RepoCommands
NextFetch == Main \/ GetUserInputs \/ FetchBitbucketRepos \/ FetchBitbucketReposOnce
SpecFetch == InitFetch /\ [][NextFetch]_vars

\* `validate` and its re-run, over a listing served as one page.  The host's
\* globals and the user's answer to a confirmation play no part in it.
InitValidate ==
    /\ Init
    /\ command = "validate"
    /\ Len(pages) = 1
    /\ pages[1].next = "null"
    /\ ~inquirerDefined
    /\ userProceeds
NextValidate ==
    \/ Main
    \/ GetUserInputs
    \/ FetchBitbucketRepos
    \/ FetchBitbucketReposOnce
    \/ ValidateRepo
    \/ WriteReport
    \/ Rerun
SpecValidate == InitValidate /\ [][NextValidate]_vars

\* `analyze:repo` over a listing served as one page.  The host's globals
\* and the user's answer to a confirmation play no part in it.
InitAnalyzeRepo ==
    /\ Init
    /\ program = "index.js"
    /\ command = "analyze:repo"
    /\ Len(pages) = 1
    /\ pages[1].next = "null"
    /\ ~inquirerDefined
    /\ userProceeds
NextAnalyzeRepo ==
    Main \/ GetUserInputs \/ FetchBitbucketRepos \/ AnalyzeRepo \/ WriteReport
SpecAnalyzeRepo == InitAnalyzeRepo /\ [][NextAnalyzeRepo]_vars

(* ------------------------------ properties ----------------------------- *)
\* the user declined the confirmation of migrate
Declined == command = "migrate" /\ ~userProceeds

\* the run has ended after a successful listing fetch that nobody declined
RanToEnd == pc = "exited" /\ fetched = "ok" /\ ~Declined

\* the report file this process wrote, if it wrote one
Written == [op |-> "writeFile", arg |-> JsString(ReportFile(command))] \in effects
ReportRows == {f.rows : f \in {g \in files : g.name = ReportFile(command)}}

\* the index of the first page whose `next` is absent or null
LastPage(ps) ==
    CHOOSE k \in 1..Len(ps) :
        /\ ps[k].next # "url"
        /\ \A j \in 1..(k - 1) : ps[j].next = "url"

\* the slugs of pages 1..k, page after page
RECURSIVE Listed(_, _)
Listed(ps, k) == IF k = 0 THEN <<>> ELSE Listed(ps, k - 1) \o ps[k].values

\* the environment outcome of item i says the item failed
ItemFailed(i) ==
    CASE command = "migrate" -> log[i] # "ok"
      [] command = "validate" -> log[i].kind # "counted"
      [] command = "analyze:repo" -> ~log[i].membersOk
      [] OTHER -> log[i].failAt # 0

\* the slug of an item of the repository list
SlugOf(item) == IF IsObject(item) THEN item.slug ELSE item.v

\* row is about item: it carries the item's identifier
RowIsAbout(row, item) ==
    CASE command \in {"migrate", "validate"} -> row.Repository.v = SlugOf(item)
      [] command = "analyze:repo" -> row.Repository = JsString(item.slug)
      [] OTHER -> row.ProjectCode = JsString(item.key)

\* the values a field takes when nothing failed
GenuineMembers == {JsString(Join(m)) : m \in Members}
GenuineCounts == {JsNumber(Sum(l)) : l \in PageLengths} \cup {JsNumber(0)}

\* row says that its item failed
RowMarkedFailed(row) ==
    CASE command \in {"migrate", "validate"} -> row.Status = JsString("Failed")
      [] command = "analyze:repo" -> row.Members \notin GenuineMembers
      [] OTHER -> row.RepoCount \notin GenuineCounts

\* C1: in every workflow a run that got its list ends with a report of one
\* row per fetched item, in fetch order, and the row of an item whose
\* processing failed is marked as failed.
C1_OneRowPerItem ==
    RanToEnd =>
        /\ exitCode = 0
        /\ Len(report) = Len(repos)
        /\ \A i \in 1..Len(report) :
              /\ RowIsAbout(report[i], repos[i])
              /\ ItemFailed(i) => RowMarkedFailed(report[i])
        /\ Len(repos) > 0 => ReportRows = {report}

\* C2: the repository fetcher returns the items of the pages up to the
\* first one without a `next`, each once, page after page and in the order
\* within each page, after exactly that many requests.
C2_FetcherReturnsListing ==
    (command \in RepoCommands /\ fetched = "ok") =>
        /\ requests = LastPage(pages)
        /\ Len(repos) = Len(Listed(pages, LastPage(pages)))
        /\ \A i \in 1..Len(repos) :
              SlugOf(repos[i]) = Listed(pages, LastPage(pages))[i]
        /\ Cardinality(SeqRange(repos)) = Len(repos)

\* C3: a failed page request of the listing fetch aborts the run: nothing
\* is processed, no report is written and the exit status is not 0.
C3_FetchFailureAborts ==
    fetched = "failed" =>
        /\ pc = "exited"
        /\ exitCode # 0
        /\ report = <<>>
        /\ ~Written

\* the report rows whose Status is s
RECURSIVE CountStatus(_, _)
CountStatus(rows, s) ==
    IF rows = <<>> THEN 0
    ELSE (IF Head(rows).Status = JsString(s) THEN 1 ELSE 0)
         + CountStatus(Tail(rows), s)

\* C4: a migrate run that got its list and was not declined exits 0 having
\* written migration_report.xlsx with one row per repository: Repository is
\* the slug, Status is "Success" with a time exactly when every step
\* succeeded and "Failed" with "N/A" otherwise, and the counters count them.
C4_MigrateReport ==
    (command = "migrate" /\ RanToEnd) =>
        /\ exitCode = 0
        /\ ReportRows = {report}
        /\ Len(report) = Len(repos)
        /\ \A i \in 1..Len(report) :
              /\ report[i].Repository = JsString(SlugOf(repos[i]))
              /\ IF log[i] = "ok"
                 THEN /\ report[i].Status = JsString("Success")
                      /\ report[i].TimeTaken # JsString("N/A")
                 ELSE /\ report[i].Status = JsString("Failed")
                      /\ report[i].TimeTaken = JsString("N/A")
        /\ passed = CountStatus(report, "Success")
        /\ failed = CountStatus(report, "Failed")

\* C5: in a migrate run the working directory is the starting directory at
\* the start of every iteration and when the report is written.
C5_CwdRestored ==
    (command = "migrate" /\ pc \in {"loop", "exited"}) =>
        /\ cwd = <<>>
        /\ \A f \in files : f.dir = <<>>

\* C6: a run of a recognized command that got its list, and was not
\* declined, ends with every item processed, the report file written and
\* exit status 0.
C6_RunCompletes ==
    RanToEnd =>
        /\ idx = Len(repos) + 1
        /\ Written
        /\ exitCode = 0

\* C7: the validate row of a repository is "Success" exactly when both of
\* its mirrors can be cloned and counted and the two counts are the same
\* number, and "Failed" otherwise; the re-run against unchanged
\* repositories gives the same rows.
C7_ValidateRows ==
    command = "validate" =>
        /\ \A i \in 1..Len(report) :
              report[i].Status =
                  IF /\ answers[i].kind = "counted"
                     /\ answers[i].bb.count = answers[i].az.count
                  THEN JsString("Success") ELSE JsString("Failed")
        /\ (run = 2 /\ pc = "exited" /\ exitCode = 0) => report = prevReport

\* C8: in a validate run neither scratch clone of a processed repository is
\* on disk once its processing has ended.
C8_ScratchRemoved ==
    command = "validate" =>
        \A i \in 1..(idx - 1) :
            i <= Len(repos) =>
                /\ Append(cwd, BitbucketDir(repos[i])) \notin fs
                /\ Append(cwd, AzureDir(repos[i])) \notin fs

\* C9: in both analysis workflows the row of an item whose details could
\* not be fetched carries, in the affected field, a marker that no genuine
\* value equals, and the items after it are still processed.
C9_DetailErrorsMarked ==
    command \in {"analyze:repo", "analyze:project"} =>
        /\ \A i \in 1..Len(report) :
              ItemFailed(i) => RowMarkedFailed(report[i])
        /\ RanToEnd => Len(report) = Len(repos)

\* C10: a migrate run whose user declines the confirmation exits with
\* status 0 without a clone, a repository creation, a push or a report.
C10_DeclineExitsCleanly ==
    (command = "migrate" /\ fetched = "ok" /\ ~userProceeds /\ pc = "exited") =>
        /\ exitCode = 0
        /\ effects = {}
        /\ report = <<>>

\* the pipelines request is issued once the permissions request has
\* returned (index.js:234-247)
PipelineListed(o) == o.membersOk

\* C11: in repository analysis the row of a repository whose pipeline
\* listing returned no item, or threw, has Pipeline "No", and the run then
\* still processes every repository, writes its report and exits 0.
C11_NoPipelineIsNo ==
    command = "analyze:repo" =>
        /\ \A i \in 1..Len(report) :
              (PipelineListed(log[i])
                  /\ (~log[i].pipelineOk \/ log[i].pipelines = 0))
                  => report[i].Pipeline = JsString("No")
        /\ RanToEnd =>
              /\ exitCode = 0
              /\ Len(report) = Len(repos)
              /\ Written

\* C11 happens: the run has ended with a row of a pipeline listing that
\* threw and a row of a pipeline listing that returned no item.
C11_Witness ==
    /\ command = "analyze:repo"
    /\ pc = "exited"
    /\ \E i, j \in 1..Len(report) :
          /\ PipelineListed(log[i]) /\ ~log[i].pipelineOk
          /\ PipelineListed(log[j]) /\ log[j].pipelineOk
          /\ log[j].pipelines = 0

====
